---- MODULE Spec2Model ----
(***************************************************************************)
(* A state-machine model of the raster chart of stream-charts              *)
(* (src/src/app/charts/RasterChart.tsx): the time window held by the chart,*)
(* the reconciliation pass (updatePlot) over the persistent scene graph,   *)
(* the pan/zoom gestures and the pointer-driven overlays.                  *)
(*                                                                         *)
(* Times are integers (ms), pixel coordinates are integers (px).  The      *)
(* gestures the model draws are those whose time arithmetic is exact on    *)
(* the integer grid; a rendered coordinate is rounded down to a whole      *)
(* pixel.  The three non-finite values of an ECMAScript Number are kept as *)
(* the values NegInf, PosInf and NaN.                                      *)
(***************************************************************************)
EXTENDS Integers, Sequences, FiniteSets, TLC

VARIABLES
    props,           \* the props of the most recent render (host-owned)
    timeRangeRef,    \* timeRangeRef.current
    tooltipRef,      \* tooltipRef.current
    zoomFactorRef,   \* zoomFactorRef.current, a rational [num, den]
    mouseCoordsRef,  \* mouseCoordsRef.current
    magnifierRef,    \* magnifierRef.current: id of the lens rect, 0 = undefined
    trackerRef,      \* trackerRef.current: id of the tracker line, 0 = undefined
    mainGRef,        \* mainGRef.current is defined
    axesRef,         \* axesRef.current: the axes handle
    axisGroups,      \* the <g class="x-axis"> and <g class="y-axis"> elements in the svg
    seriesGroups,    \* the <g class="spikes-series"> children of the main <g>
    tooltips,        \* the elements of class "tooltip" in the svg
    magnifiers,      \* the <rect class="magnifier"> elements in the svg
    trackers,        \* the <line class="tracker"> elements in the svg
    listeners,       \* the listeners registered on the svg element
    annotations,     \* the render annotations written on the data: datum.x, datum.lens
    pointer,         \* the pointer: position and the spike it is over
    last             \* the callback that ran last, and whether it was a neutral gesture

vars == <<props, timeRangeRef, tooltipRef, zoomFactorRef, mouseCoordsRef,
          magnifierRef, trackerRef, mainGRef, axesRef, axisGroups, seriesGroups,
          tooltips, magnifiers, trackers, listeners, annotations, pointer, last>>

(***************************************************************************)
(* Bounds of the model.                                                    *)
(***************************************************************************)
\* the window stays inside [-Horizon, Horizon] (guards of the gestures)
Horizon == 1600
\* the scene holds at most this many lens rects and this many tracker lines
MaxOverlays == 2
\* the scene holds at most this many tooltips (a box and two texts each)
MaxTooltips == 2

(***************************************************************************)
(* Numbers: the finite ones and Infinity, -Infinity, NaN.                  *)
(***************************************************************************)
PosInf == 1000 * 1000
NegInf == 0 - PosInf
NaN == 2 * PosInf

IsFinite(a) == a > NegInf /\ a < PosInf

Min(a, b) == IF a <= b THEN a ELSE b
Max(a, b) == IF a >= b THEN a ELSE b

\* a <= b of two Numbers: false as soon as one is NaN
XLeq(a, b) == a # NaN /\ b # NaN /\ a <= b

XNeg(a) == IF a = NaN THEN NaN ELSE 0 - a

XAdd(a, b) ==
    IF a = NaN \/ b = NaN THEN NaN
    ELSE IF ~IsFinite(a) /\ ~IsFinite(b) THEN (IF a = b THEN a ELSE NaN)
    ELSE IF ~IsFinite(a) THEN a
    ELSE IF ~IsFinite(b) THEN b
    ELSE a + b

XSub(a, b) == XAdd(a, XNeg(b))

\* a / k for a rational k = [num, den] with num >= 0 and den > 0
XDivK(a, k) ==
    IF a = NaN THEN NaN
    ELSE IF k.num = 0
         THEN (IF a = 0 THEN NaN ELSE IF a > 0 THEN PosInf ELSE NegInf)
    ELSE IF ~IsFinite(a) THEN a
    ELSE (a * k.den) \div k.num

\* a / k is a whole number (or is not finite at all)
ExactDivK(a, k) == (IsFinite(a) /\ k.num > 0) => (a * k.den) % k.num = 0

(***************************************************************************)
(* The time range (timeRange.ts is not among the sources: modelled from    *)
(* the specification's contract of TimeRange).                             *)
(***************************************************************************)
TimeRange(min, max) ==
    [start |-> min, end |-> max, originalStart |-> min, originalEnd |-> max]

\* scale(k, pivot): the spans left and right of the pivot, scaled by 1/k
RangeScale(tr, k, pivot) ==
    [tr EXCEPT !.start = XSub(pivot, XDivK(XSub(pivot, tr.start), k)),
               !.end = XAdd(pivot, XDivK(XSub(tr.end, pivot), k))]

\* translate(dt): both bounds shifted by dt
RangeTranslate(tr, dt) ==
    [tr EXCEPT !.start = XAdd(tr.start, dt), !.end = XAdd(tr.end, dt)]

\* matchesOriginal(min, max): exact comparison with the bounds of creation
MatchesOriginal(tr, min, max) ==
    tr.originalStart = min /\ tr.originalEnd = max

RangeFinite(tr) == IsFinite(tr.start) /\ IsFinite(tr.end)

(***************************************************************************)
(* d3 scales.                                                              *)
(***************************************************************************)
\* d3.scaleLinear().domain([d0, d1]).range([0, w])
ScaleLinear(d0, d1, w) == [d0 |-> d0, d1 |-> d1, w |-> w]

\* scale(t): a domain of no extent maps to the middle of the range
ScaleApply(s, t) ==
    IF ~IsFinite(s.d0) \/ ~IsFinite(s.d1) \/ ~IsFinite(t) THEN NaN
    ELSE IF s.d0 = s.d1 THEN s.w \div 2
    ELSE ((t - s.d0) * s.w) \div (s.d1 - s.d0)

\* scale.invert(x)
ScaleInvert(s, x) ==
    IF ~IsFinite(s.d0) \/ ~IsFinite(s.d1) \/ ~IsFinite(x) THEN NaN
    ELSE s.d0 + (x * (s.d1 - s.d0)) \div s.w

ExactInvert(s, x) ==
    (IsFinite(s.d0) /\ IsFinite(s.d1) /\ IsFinite(x)) => (x * (s.d1 - s.d0)) % s.w = 0

\* position of name in the sequence names, 0 when absent
RECURSIVE IndexOf(_, _, _)
IndexOf(names, name, i) ==
    IF i > Len(names) THEN 0
    ELSE IF names[i] = name THEN i
    ELSE IndexOf(names, name, i + 1)

\* d3.scaleBand().domain(names).range([0, r])
ScaleBand(names, r) == [names |-> names, r |-> r]

\* yScale(name) || 0
BandApply(s, name) ==
    LET i == IndexOf(s.names, name, 1)
    IN IF i = 0 THEN 0 ELSE (i - 1) * (s.r \div Len(s.names))

(***************************************************************************)
(* Configuration: the defaults of the style options, and what a render     *)
(* closes over.                                                            *)
(***************************************************************************)
defaultMargin == [top |-> 30, right |-> 20, bottom |-> 30, left |-> 50]

defaultSpikesStyle ==
    [margin |-> 2, color |-> "#c95d15", lineWidth |-> 2,
     highlightColor |-> "#d2933f", highlightWidth |-> 4]

defaultAxesStyle == [color |-> "#d2933f"]

defaultAxesLabelFont ==
    [size |-> 12, color |-> "#d2933f", weight |-> 300, family |-> "sans-serif"]

defaultPlotGridLines == [visible |-> TRUE, color |-> "rgba(210,147,63,0.35)"]

\* of the tooltip style: the flag and the padding the position is computed with
defaultTooltipStyle == [visible |-> FALSE, paddingLeft |-> 10]

defaultLineMagnifierStyle == [visible |-> FALSE, width |-> 75]

defaultTrackerStyle == [visible |-> FALSE, color |-> "#d2933f", lineWidth |-> 2]

\* the overall size the host gives the chart
HostSize == [width |-> 170, height |-> 102]

\* the style a render computes from its props: {...defaults, ...props.x}
DefaultStyle ==
    [width |-> HostSize.width, height |-> HostSize.height,
     margin |-> defaultMargin, spikesStyle |-> defaultSpikesStyle,
     tooltip |-> defaultTooltipStyle, magnifier |-> defaultLineMagnifierStyle,
     tracker |-> defaultTrackerStyle]

\* the option objects of the props, and their defaults
Defaults ==
    [margin |-> defaultMargin, spikesStyle |-> defaultSpikesStyle,
     axisStyle |-> defaultAxesStyle, axisLabelFont |-> defaultAxesLabelFont,
     plotGridLines |-> defaultPlotGridLines, tooltip |-> defaultTooltipStyle,
     magnifier |-> defaultLineMagnifierStyle, tracker |-> defaultTrackerStyle]

\* (mutant) {...partial, ...defaults}: the defaults are spread last
MergeDefaultsLast(defaults, partial) == defaults @@ partial

\* {...defaults, ...partial}: the own fields of partial, then those of defaults
Merge(defaults, partial) == partial @@ defaults

\* the style a render computes from the size and the option objects of its
\* props
EffectiveStyle(size, options) ==
    [key \in DOMAIN Defaults |-> Merge(Defaults[key], options[key])]
        @@ [width |-> size.width, height |-> size.height]

\* (mutant) the margins are taken off one side only
adjustedDimensionsOneSide(width, height, margins) ==
    [width |-> width - margins.left, height |-> height - margins.top]

\* adjustedDimensions(width, height, margins)
adjustedDimensions(width, height, margins) ==
    [width |-> width - margins.left - margins.right,
     height |-> height - margins.top - margins.bottom]

plotDimensions(style) == adjustedDimensions(style.width, style.height, style.margin)

\* spikeLineHeight(): plotDimensions.height / seriesList.length
spikeLineHeight(cl) ==
    IF Len(cl.seriesList) = 0 THEN PosInf
    ELSE plotDimensions(cl.style).height \div Len(cl.seriesList)

\* mouseInPlotArea(x, y), with the margin and size the handler closed over
mouseInPlotArea(style, x, y) ==
    /\ x > style.margin.left
    /\ x < style.width - style.margin.right
    /\ y > style.margin.top
    /\ y < style.height - style.margin.bottom

(***************************************************************************)
(* The data the host supplies: each series is a prefix of its stream       *)
(* (series are append-only).                                               *)
(***************************************************************************)
Datum(t) == [time |-> t, value |-> 1]

Stream(name) ==
    IF name = "n0" THEN <<Datum(10), Datum(500), Datum(1200)>>
    ELSE IF name = "n1" THEN <<Datum(300), Datum(800), Datum(1500)>>
    ELSE <<Datum(600)>>

Series(name, n) == [name |-> name, data |-> SubSeq(Stream(name), 1, n)]

Names(seriesList) == [i \in 1..Len(seriesList) |-> seriesList[i].name]

(***************************************************************************)
(* The scene graph.                                                        *)
(*   a series group:  [id, lines], lines in document order                 *)
(*   a spike line:    [datum, x1, x2, y1, y2, stroke, strokeWidth,         *)
(*                     closure]; closure is the style its mouseover and    *)
(*                     mouseleave listeners closed over when they were     *)
(*                     attached                                            *)
(* The join of the lines with the data is by index: lines are appended at  *)
(* the end of their group and removed from its end, so that the element at *)
(* index j of a group stays the same element for as long as the group has  *)
(* j lines.                                                                *)
(*                                                                         *)
(* The data bound to the lines are the objects of the host's series: what  *)
(* the chart writes on them (datum.x, datum.lens) stays on the object.     *)
(* annotations.x and annotations.lens hold what was written, by datum; a   *)
(* datum is the one of its series with its time.  The chart reaches a      *)
(* datum through the line it is bound to, in the callbacks of a selection  *)
(* of lines: the annotations are kept for the data bound to a line of the  *)
(* scene, and a datum that is bound to none carries none.                  *)
(***************************************************************************)
\* the datum of the series `name` with the time of `datum`
DatumOf(name, datum) == <<name, datum.time>>

\* (mutant) datum.x is computed for the data that carry none yet
WriteXOnce(heapX, name, datum, xScale) ==
    IF DatumOf(name, datum) \in DOMAIN heapX THEN heapX
    ELSE (DatumOf(name, datum) :> ScaleApply(xScale, datum.time)) @@ heapX

\* .each(datum => {datum.x = xScale(datum.time)}) for one datum
WriteX(heapX, name, datum, xScale) ==
    (DatumOf(name, datum) :> ScaleApply(xScale, datum.time)) @@ heapX

\* .each(datum => {datum.x = xScale(datum.time)}) for the data of a selection
RECURSIVE AnnotateX(_, _, _, _, _)
AnnotateX(heapX, name, data, xScale, j) ==
    IF j > Len(data) THEN heapX
    ELSE AnnotateX(WriteX(heapX, name, data[j], xScale), name, data, xScale, j + 1)

\* datum => datum.x
ReadX(heapX, name, datum) == heapX[DatumOf(name, datum)]

InView(t, tr) == XLeq(tr.start, t) /\ XLeq(t, tr.end)

\* series.data.filter(datum => datum.time >= start && datum.time <= end)
FilterInView(data, tr) == SelectSeq(data, LAMBDA d : InView(d.time, tr))

\* svg.select(`#${name}`): the first group with that id, 0 when there is none
RECURSIVE SelectById(_, _, _)
SelectById(groups, name, g) ==
    IF g > Len(groups) THEN 0
    ELSE IF groups[g].id = name THEN g
    ELSE SelectById(groups, name, g + 1)

\* mainG.selectAll('g').data(seriesList).enter().append('g').attr('id', name):
\* the join is by index, a group is appended for each index beyond the groups
EnterGroups(groups, seriesList) ==
    groups \o [i \in 1..(Len(seriesList) - Len(groups)) |->
                  [id |-> seriesList[Len(groups) + i].name, lines |-> <<>>]]

\* container.enter().append('line') ... .on("mouseover", ..).on("mouseleave", ..)
EnterLine(datum, x, y, lineHeight, style) ==
    [datum |-> datum, x1 |-> x, x2 |-> x,
     y1 |-> y + style.spikesStyle.margin,
     y2 |-> XSub(XAdd(y, lineHeight), style.spikesStyle.margin),
     stroke |-> style.spikesStyle.color,
     strokeWidth |-> style.spikesStyle.lineWidth,
     closure |-> style]

\* container.filter(..).each(..).attr('x1', ..) ... : the element is kept, bound
\* to the datum of its index, and repositioned
UpdateLine(line, datum, x, y, lineHeight, style) ==
    [line EXCEPT !.datum = datum, !.x1 = x, !.x2 = x,
                 !.y1 = y + style.spikesStyle.margin,
                 !.y2 = XSub(XAdd(y, lineHeight), style.spikesStyle.margin)]

\* the lines of one series group after the join (by index) with the data in
\* view: update the first ones, enter the missing ones, exit the surplus; the
\* x of a line is the datum.x of the datum bound to it
JoinLines(lines, data, heapX, name, y, lineHeight, style) ==
    LET nUpdate == Min(Len(lines), Len(data))
    IN [j \in 1..Len(data) |->
          IF j <= nUpdate
          THEN UpdateLine(lines[j], data[j], ReadX(heapX, name, data[j]),
                          y, lineHeight, style)
          ELSE EnterLine(data[j], ReadX(heapX, name, data[j]),
                         y, lineHeight, style)]

\* seriesList.forEach(series => ...), from series i on: the series groups and
\* the datum.x written so far
RECURSIVE ReconcileSeries(_, _, _, _, _)
ReconcileSeries(i, scene, cl, tr, sc) ==
    IF i > Len(cl.seriesList) THEN scene
    ELSE LET series == cl.seriesList[i]
             g == SelectById(scene.groups, series.name, 1)
         IN IF g = 0 THEN ReconcileSeries(i + 1, scene, cl, tr, sc)
            ELSE LET data == FilterInView(series.data, tr)
                     heapX == AnnotateX(scene.x, series.name, data, sc.xScale, 1)
                     lines == JoinLines(scene.groups[g].lines, data, heapX,
                                        series.name,
                                        BandApply(sc.yScale, series.name),
                                        spikeLineHeight(cl), cl.style)
                 IN ReconcileSeries(i + 1,
                                    [groups |-> [scene.groups EXCEPT ![g].lines = lines],
                                     x |-> heapX],
                                    cl, tr, sc)

\* the series groups and the datum.x after the pass: no group is created by
\* the pass that creates the main <g>; later passes append the missing ones
\* and join the lines
SceneAfter(cl, tr, sc) ==
    LET groups == IF mainGRef THEN EnterGroups(seriesGroups, cl.seriesList)
                  ELSE seriesGroups
    IN ReconcileSeries(1, [groups |-> groups, x |-> annotations.x], cl, tr, sc)

\* the data bound to a line of the scene
BoundData(groups) ==
    UNION {{DatumOf(groups[g].id, groups[g].lines[j].datum) :
               j \in 1..Len(groups[g].lines)} : g \in 1..Len(groups)}

\* what is written on the data of the set `data`
Restrict(heap, data) == [datum \in (DOMAIN heap) \cap data |-> heap[datum]]

\* the annotations of the data bound to a line after the pass
AnnotationsAfter(scene) ==
    [x |-> Restrict(scene.x, BoundData(scene.groups)),
     lens |-> Restrict(annotations.lens, BoundData(scene.groups))]

\* (mutant) the bands keep the order of the series list of the first pass
ScalesWithFirstBands(cl, tr) ==
    [xScale |-> ScaleLinear(tr.start, tr.end, plotDimensions(cl.style).width),
     yScale |-> ScaleBand(IF axesRef.defined THEN axesRef.yScale.names
                          ELSE Names(cl.seriesList),
                          IF Len(cl.seriesList) = 0 THEN NaN
                          ELSE spikeLineHeight(cl) * Len(cl.seriesList)
                               - cl.style.margin.top)]

\* the scales a pass computes
Scales(cl, tr) ==
    [xScale |-> ScaleLinear(tr.start, tr.end, plotDimensions(cl.style).width),
     yScale |-> ScaleBand(Names(cl.seriesList),
                          IF Len(cl.seriesList) = 0 THEN NaN
                          ELSE spikeLineHeight(cl) * Len(cl.seriesList)
                               - cl.style.margin.top)]

(***************************************************************************)
(* updatePlot(timeRange), run by the render whose props and style are cl.  *)
(***************************************************************************)
\* the magnifier is set up by this pass
MagnifierSetUp(cl) == cl.style.magnifier.visible /\ magnifierRef = 0

\* the tracker is set up by this pass
TrackerSetUp(cl) == cl.style.tracker.visible /\ trackerRef = 0

\* svg.on('mousemove', ...): a listener of a type replaces the one registered
\* before for that type; the magnifier registers first, the tracker second
MouseMoveListenerAfter(cl) ==
    IF TrackerSetUp(cl) THEN [kind |-> "tracker", closure |-> cl.style]
    ELSE IF MagnifierSetUp(cl) THEN [kind |-> "magnify", closure |-> cl.style]
    ELSE listeners.mousemove

\* (mutant) every pass creates the axes
AxesCreatedEveryPass(handle) == TRUE

\* if (!axesRef.current): this pass creates the axes
AxesCreated(handle) == ~handle.defined

\* the axis groups after the pass: appended by the pass that creates the axes,
\* redrawn in place (selection.call(axis)) with the new scales by the others
AxisGroupsAfter(sc) ==
    IF AxesCreated(axesRef)
    THEN axisGroups \o << [class |-> "x-axis", scale |-> sc.xScale],
                          [class |-> "y-axis", scale |-> sc.yScale] >>
    ELSE [i \in 1..Len(axisGroups) |->
             IF i = axesRef.xAxisSelection
             THEN [axisGroups[i] EXCEPT !.scale = sc.xScale]
             ELSE IF i = axesRef.yAxisSelection
             THEN [axisGroups[i] EXCEPT !.scale = sc.yScale]
             ELSE axisGroups[i]]

\* axesRef.current after the pass: the generators are replaced, the selections
\* are those of the pass that created the axes
AxesAfter(sc) ==
    [defined |-> TRUE, xScale |-> sc.xScale, yScale |-> sc.yScale,
     xAxisSelection |-> IF AxesCreated(axesRef) THEN Len(axisGroups) + 1
                        ELSE axesRef.xAxisSelection,
     yAxisSelection |-> IF AxesCreated(axesRef) THEN Len(axisGroups) + 2
                        ELSE axesRef.yAxisSelection]

\* no spike is under the pointer
Nowhere == [g |-> 0, j |-> 0]

\* the spike under the pointer, none once its element has left the scene
OverAfter(groups) ==
    IF pointer.over.g \in 1..Len(groups)
       /\ pointer.over.j \in 1..Len(groups[pointer.over.g].lines)
    THEN pointer.over ELSE Nowhere

updatePlot(cl, tr) ==
    LET sc == Scales(cl, tr)
        scene == SceneAfter(cl, tr, sc)
        groups == scene.groups
    IN /\ tooltipRef' = cl.style.tooltip
       /\ timeRangeRef' = tr
       \* set up the magnifier once
       /\ IF MagnifierSetUp(cl)
          THEN /\ magnifiers' = Append(magnifiers, [x |-> 0, width |-> 0, opacity |-> 1])
               /\ magnifierRef' = Len(magnifiers) + 1
          ELSE /\ magnifiers' = magnifiers
               /\ magnifierRef' = IF ~cl.style.magnifier.visible THEN 0 ELSE magnifierRef
       \* set up the tracker line once
       /\ IF TrackerSetUp(cl)
          THEN /\ trackers' = Append(trackers, [x1 |-> 0, x2 |-> 0, opacity |-> 0])
               /\ trackerRef' = Len(trackers) + 1
          ELSE /\ trackers' = trackers
               /\ trackerRef' = IF ~cl.style.tracker.visible THEN 0 ELSE trackerRef
       \* the main <g> once, the series groups in the later passes
       /\ mainGRef' = TRUE
       \* svg.call(drag), svg.call(zoom): the gestures call this render's handlers
       /\ listeners' = [mousemove |-> MouseMoveListenerAfter(cl),
                        gesture |-> [registered |-> TRUE, closure |-> cl]]
       \* the axes: created by the first pass, their scales replaced by the others
       /\ axesRef' = AxesAfter(sc)
       /\ axisGroups' = AxisGroupsAfter(sc)
       /\ seriesGroups' = groups
       /\ annotations' = AnnotationsAfter(scene)
       /\ pointer' = [pointer EXCEPT !.over = OverAfter(groups)]
       /\ UNCHANGED tooltips

(***************************************************************************)
(* The host renders the chart with props p; the effect runs updatePlot.    *)
(***************************************************************************)
\* (mutant) the effect builds the window from the bounds on every render
EffectTimeRangeReset(p) == TimeRange(p.minTime, p.maxTime)

\* useEffect: keep the window when the bounds are those it was created with
EffectTimeRange(p) ==
    IF MatchesOriginal(timeRangeRef, p.minTime, p.maxTime) THEN timeRangeRef
    ELSE TimeRange(p.minTime, p.maxTime)

Render(p) ==
    /\ props' = p
    /\ updatePlot(p, EffectTimeRange(p))
    /\ last' = [op |-> "render", neutral |-> FALSE]
    /\ UNCHANGED <<zoomFactorRef, mouseCoordsRef>>

(***************************************************************************)
(* Gestures.                                                               *)
(***************************************************************************)
\* the window stays in the part of the time axis the model covers
InHorizon(tr) ==
    RangeFinite(tr) => (tr.start >= 0 - Horizon /\ tr.end <= Horizon)

\* the window onPan(deltaX) computes
PanTimeRange(deltaX) ==
    LET scale == axesRef.xScale
        currentTime == timeRangeRef.start
        x == ScaleApply(scale, currentTime)
        deltaTime == XSub(ScaleInvert(scale, XAdd(x, deltaX)), currentTime)
    IN RangeTranslate(timeRangeRef, XNeg(deltaTime))

\* drag: onPan(d3.event.dx)
onPan(deltaX) ==
    /\ listeners.gesture.registered
    /\ ExactInvert(axesRef.xScale, deltaX)
    /\ InHorizon(PanTimeRange(deltaX))
    /\ updatePlot(listeners.gesture.closure, PanTimeRange(deltaX))
    /\ last' = [op |-> "pan", neutral |-> deltaX = 0]
    /\ UNCHANGED <<props, zoomFactorRef, mouseCoordsRef>>

\* (mutant) the window is scaled around its start
ZoomTimeRangeAtStart(k, x) == RangeScale(timeRangeRef, k, timeRangeRef.start)

\* the window onZoom(transform, x) computes
ZoomTimeRange(k, x) ==
    RangeScale(timeRangeRef, k, ScaleInvert(axesRef.xScale, x))

\* zoom: onZoom(d3.event.transform, d3.event.sourceEvent.offsetX - margin.left)
onZoom(k, offsetX) ==
    LET x == offsetX - listeners.gesture.closure.style.margin.left
        time == ScaleInvert(axesRef.xScale, x)
    IN /\ listeners.gesture.registered
       /\ ExactInvert(axesRef.xScale, x)
       /\ ExactDivK(XSub(time, timeRangeRef.start), k)
       /\ ExactDivK(XSub(timeRangeRef.end, time), k)
       /\ InHorizon(ZoomTimeRange(k, x))
       /\ zoomFactorRef' = k
       /\ updatePlot(listeners.gesture.closure, ZoomTimeRange(k, x))
       /\ last' = [op |-> "zoom", neutral |-> k.num = k.den]
       /\ UNCHANGED <<props, mouseCoordsRef>>

(***************************************************************************)
(* Hovering a spike: the tooltip.                                          *)
(***************************************************************************)
\* the width of the tooltip's text, as getBBox() measures it
TextBox == [width |-> 40]

\* tooltipX(time, textWidth), with the margin, plot width and padding of the
\* render that attached the listener
tooltipX(style, time, textWidth) ==
    LET x == ScaleApply(axesRef.xScale, time)
        clamped == IF x = NaN THEN NaN
                   ELSE Min(Max(x, textWidth \div 2),
                            plotDimensions(style).width - textWidth \div 2)
    IN XSub(XAdd(clamped, style.margin.left),
            textWidth \div 2 + style.tooltip.paddingLeft)

\* the three elements of class "tooltip" handleShowTooltip appends
TooltipElements(style, datum, seriesName) ==
    LET x == tooltipX(style, datum.time, TextBox.width)
    IN << [kind |-> "rect", time |-> datum.time, series |-> seriesName, x |-> x],
          [kind |-> "text", time |-> datum.time, series |-> seriesName,
           x |-> XAdd(x, tooltipRef.paddingLeft)],
          [kind |-> "text", time |-> datum.time, series |-> seriesName,
           x |-> XAdd(x, tooltipRef.paddingLeft)] >>

\* (mutant) the flag is the one of the render that attached the listener
TooltipEnabledWhenAttached(style) == style.tooltip.visible

\* the flag handleShowTooltip and handleHideTooltip test
TooltipEnabled(style) == tooltipRef.visible

\* handleShowTooltip(datum, seriesName, spike): the spike after the call
ShownSpike(line) ==
    IF ~TooltipEnabled(line.closure) THEN line
    ELSE [line EXCEPT !.stroke = line.closure.spikesStyle.highlightColor,
                      !.strokeWidth = line.closure.spikesStyle.highlightWidth]

\* handleHideTooltip(datum, seriesName, spike): the spike after the call
HiddenSpike(line) ==
    [line EXCEPT !.stroke = line.closure.spikesStyle.color,
                 !.strokeWidth = line.closure.spikesStyle.lineWidth]

\* d3.selectAll('.tooltip').remove(), when the tooltip is enabled
TooltipsAfterHide(style) == IF TooltipEnabled(style) THEN <<>> ELSE tooltips

\* the pointer enters spike j of group g: its mouseover listener runs
MouseOver(g, j) ==
    /\ g \in 1..Len(seriesGroups)
    /\ j \in 1..Len(seriesGroups[g].lines)
    /\ pointer.over = Nowhere
    /\ Len(tooltips) + 3 <= 3 * MaxTooltips
    /\ LET line == seriesGroups[g].lines[j]
       IN /\ seriesGroups' = [seriesGroups EXCEPT ![g].lines[j] = ShownSpike(line)]
          /\ tooltips' = IF TooltipEnabled(line.closure)
                         THEN tooltips \o TooltipElements(line.closure, line.datum,
                                                          seriesGroups[g].id)
                         ELSE tooltips
          /\ pointer' = [pointer EXCEPT !.over = [g |-> g, j |-> j]]
          /\ last' = [op |-> "mouseover", neutral |-> FALSE]
    /\ UNCHANGED <<props, timeRangeRef, tooltipRef, zoomFactorRef, mouseCoordsRef,
                   magnifierRef, trackerRef, mainGRef, axesRef, axisGroups,
                   magnifiers, trackers, listeners, annotations>>

\* the pointer leaves the spike it is over: its mouseleave listener runs
MouseLeave(g, j) ==
    /\ g \in 1..Len(seriesGroups)
    /\ j \in 1..Len(seriesGroups[g].lines)
    /\ pointer.over = [g |-> g, j |-> j]
    /\ LET line == seriesGroups[g].lines[j]
       IN /\ seriesGroups' = [seriesGroups EXCEPT ![g].lines[j] = HiddenSpike(line)]
          /\ tooltips' = TooltipsAfterHide(line.closure)
          /\ last' = [op |-> "mouseleave", neutral |-> FALSE]
    /\ pointer' = [pointer EXCEPT !.over = Nowhere]
    /\ UNCHANGED <<props, timeRangeRef, tooltipRef, zoomFactorRef, mouseCoordsRef,
                   magnifierRef, trackerRef, mainGRef, axesRef, axisGroups,
                   magnifiers, trackers, listeners, annotations>>

(***************************************************************************)
(* The bar magnifier (barMagnifier.ts is not among the sources: modelled   *)
(* from the specification's contract of magnify).  magnification is kept   *)
(* in hundredths.                                                          *)
(***************************************************************************)
Abs(a) == IF a < 0 THEN 0 - a ELSE a

\* BarMagnifier(w, p, x0).magnify(x), p a rational [num, den]: the focal
\* point and the edge map to themselves, with magnification p and 1; in
\* between a point moves away from the focal point
Magnify(w, p, x0, x) ==
    LET d == Abs(x - x0)
    IN IF x = NaN \/ x0 = NaN THEN [xPrime |-> NaN, magnification |-> NaN]
       ELSE IF d >= w \/ p.num = 0 THEN [xPrime |-> x, magnification |-> 100]
       ELSE LET out == ((p.num - p.den) * d * (w - d)) \div (p.num * w)
            IN [xPrime |-> IF x >= x0 THEN x + out ELSE x - out,
                magnification |-> (100 * (p.num * (w - d) + p.den * d))
                                     \div (p.den * w)]

(***************************************************************************)
(* Moving the pointer: the magnifier lens and the tracker line.            *)
(***************************************************************************)
\* inMagnifier(datum, x, xInterval)
inMagnifier(style, datum, x, xInterval) ==
    LET datumX == XAdd(ScaleApply(axesRef.xScale, datum.time), style.margin.left)
    IN datumX # NaN /\ datumX > x - xInterval /\ datumX < x + xInterval

\* xFrom(datum)
xFrom(datum) == ScaleApply(axesRef.xScale, datum.time)

\* BarMagnifier(deltaX, 3 * zoomFactorRef.current, x - margin.left): the half
\* width, the power and the focal point the lens is constructed with
BarMagnifier(style, deltaX, x) ==
    [w |-> deltaX,
     p |-> [num |-> 3 * zoomFactorRef.num, den |-> zoomFactorRef.den],
     x0 |-> x - style.margin.left]

\* .filter(datum => inMagnifier(datum, x, 4 * deltaX)): the spikes of the
\* scene the lens is applied to, as <<group, index>>
Filtered(style, groups, deltaX, x) ==
    {gj \in UNION {{<<g, j>> : j \in 1..Len(groups[g].lines)} : g \in 1..Len(groups)} :
        inMagnifier(style, groups[gj[1]].lines[gj[2]].datum, x, 4 * deltaX)}

\* the calls barMagnifier.magnify(xFrom(datum)) of a recompute: the lens and
\* the point of each
MagnifyCalls(style, groups, deltaX, x) ==
    {[lens |-> BarMagnifier(style, deltaX, x),
      x |-> xFrom(groups[gj[1]].lines[gj[2]].datum)] :
        gj \in Filtered(style, groups, deltaX, x)}

\* .each(datum => {datum.lens = barMagnifier.magnify(xFrom(datum))}): the
\* datum.lens after a recompute
AnnotateLens(heapLens, style, groups, deltaX, x) ==
    LET lens == BarMagnifier(style, deltaX, x)
        keys == {DatumOf(groups[gj[1]].id, groups[gj[1]].lines[gj[2]].datum) :
                    gj \in Filtered(style, groups, deltaX, x)}
    IN [k \in keys |->
           Magnify(lens.w, lens.p, lens.x0, xFrom([time |-> k[2]]))] @@ heapLens

\* a spike drawn with the datum.lens of its datum
MagnifiedSpike(style, line, lens) ==
    [line EXCEPT !.x1 = lens.xPrime, !.x2 = lens.xPrime,
                 !.strokeWidth =
                     IF lens.magnification = NaN THEN NaN
                     ELSE (style.spikesStyle.lineWidth
                           * Min(200, Max(lens.magnification, 100))) \div 100]

\* a spike put back where its time is
RestoredSpike(style, line) ==
    [line EXCEPT !.x1 = xFrom(line.datum), !.x2 = xFrom(line.datum),
                 !.strokeWidth = style.spikesStyle.lineWidth]

\* selectAll('.spikes-lines').filter(inMagnifier) ... : every spike of the scene
\* within 4 deltaX of the pointer is drawn with the datum.lens of its datum
LensSpikes(style, groups, heapLens, deltaX, x) ==
    [g \in 1..Len(groups) |->
        [groups[g] EXCEPT !.lines = [j \in 1..Len(groups[g].lines) |->
            IF <<g, j>> \in Filtered(style, groups, deltaX, x)
            THEN MagnifiedSpike(style, groups[g].lines[j],
                                heapLens[DatumOf(groups[g].id, groups[g].lines[j].datum)])
            ELSE groups[g].lines[j]]]]

\* selectAll('.spikes-lines') ... : every spike of the scene is put back
RestoredSpikes(style, groups) ==
    [g \in 1..Len(groups) |->
        [groups[g] EXCEPT !.lines = [j \in 1..Len(groups[g].lines) |->
            RestoredSpike(style, groups[g].lines[j])]]]

\* the lens is recomputed: the pointer is in the plot, a pixel or more away
\* from where the lens was computed last
LensRecomputed(style, x, y) ==
    mouseInPlotArea(style, x, y) /\ Abs(x - mouseCoordsRef) >= 1

\* (mutant) the handler takes its element to be there
HandleAssumed(path) == TRUE

\* if (containerRef.current && path): the element the handler acts on exists
HandlePresent(path) == path # 0

\* handleShowMagnify(path)
handleShowMagnify(style, path, x, y) ==
    LET isMouseInPlot == mouseInPlotArea(style, x, y)
        deltaX == style.magnifier.width \div 2
    IN IF ~HandlePresent(path)
       THEN UNCHANGED <<magnifiers, seriesGroups, mouseCoordsRef, annotations>>
       ELSE IF LensRecomputed(style, x, y)
       THEN /\ magnifiers' = [magnifiers EXCEPT ![path] =
                                 [x |-> x - deltaX, width |-> 2 * deltaX, opacity |-> 1]]
            /\ annotations' =
                   [annotations EXCEPT !.lens =
                       AnnotateLens(annotations.lens, style, seriesGroups, deltaX, x)]
            /\ seriesGroups' = LensSpikes(style, seriesGroups, annotations'.lens, deltaX, x)
            /\ mouseCoordsRef' = x
       ELSE IF ~isMouseInPlot
       THEN /\ magnifiers' = [magnifiers EXCEPT ![path] =
                                 [x |-> style.margin.left, width |-> 0, opacity |-> 0]]
            /\ seriesGroups' = RestoredSpikes(style, seriesGroups)
            /\ mouseCoordsRef' = 0
            /\ UNCHANGED annotations
       ELSE /\ magnifiers' = [magnifiers EXCEPT ![path] =
                                 [x |-> x - deltaX, width |-> 2 * deltaX, opacity |-> 1]]
            /\ UNCHANGED <<seriesGroups, mouseCoordsRef, annotations>>

\* handleShowTracker(path)
handleShowTracker(style, path, x, y) ==
    IF ~HandlePresent(path) THEN UNCHANGED trackers
    ELSE trackers' = [trackers EXCEPT ![path] =
                         [x1 |-> x, x2 |-> x,
                          opacity |-> IF mouseInPlotArea(style, x, y) THEN 1 ELSE 0]]

\* the pointer moves to (x, y) over the svg: the one mousemove listener runs,
\* reading the element it acts on through its ref
MouseMove(x, y) ==
    /\ listeners.mousemove.kind # "none"
    /\ IF listeners.mousemove.kind = "magnify"
       THEN /\ handleShowMagnify(listeners.mousemove.closure, magnifierRef, x, y)
            /\ UNCHANGED trackers
       ELSE /\ handleShowTracker(listeners.mousemove.closure, trackerRef, x, y)
            /\ UNCHANGED <<magnifiers, seriesGroups, mouseCoordsRef, annotations>>
    /\ pointer' = [pointer EXCEPT !.x = x, !.y = y]
    /\ last' = [op |-> "mousemove", neutral |-> FALSE]
    /\ UNCHANGED <<props, timeRangeRef, tooltipRef, zoomFactorRef, magnifierRef,
                   trackerRef, mainGRef, axesRef, axisGroups, tooltips, listeners>>

(***************************************************************************)
(* The state after construction: the component function has run once with  *)
(* the props p0 (the refs hold their initial values), no effect has run.   *)
(***************************************************************************)
InitWith(p0) ==
    /\ props = p0
    /\ timeRangeRef = TimeRange(p0.minTime, p0.maxTime)
    /\ tooltipRef = p0.style.tooltip
    /\ zoomFactorRef = [num |-> 1, den |-> 1]
    /\ mouseCoordsRef = 0
    /\ magnifierRef = 0
    /\ trackerRef = 0
    /\ mainGRef = FALSE
    /\ axesRef = [defined |-> FALSE, xScale |-> ScaleLinear(0, 0, 0),
                  yScale |-> ScaleBand(<<>>, 0),
                  xAxisSelection |-> 0, yAxisSelection |-> 0]
    /\ axisGroups = <<>>
    /\ seriesGroups = <<>>
    /\ tooltips = <<>>
    /\ magnifiers = <<>>
    /\ trackers = <<>>
    /\ annotations = [x |-> <<>>, lens |-> <<>>]
    /\ listeners = [mousemove |-> [kind |-> "none", closure |-> p0.style],
                    gesture |-> [registered |-> FALSE, closure |-> p0]]
    /\ pointer = [x |-> 0, y |-> 0, over |-> Nowhere]
    /\ last = [op |-> "init", neutral |-> FALSE]

\* the effect of the first render has run
Mounted == listeners.gesture.registered

\* the effect of the first render: the first reconciliation pass
Mount == ~Mounted /\ Render(props)

\* a later render, with the props p
HostRender(p) == Mounted /\ Render(p)

(***************************************************************************)
(* The inputs of the model.                                                *)
(***************************************************************************)
InitialProps ==
    [seriesList |-> <<Series("n0", 3), Series("n1", 2)>>,
     minTime |-> 0, maxTime |-> 1000, style |-> DefaultStyle]

\* the (minTime, maxTime) the host supplies
HostBounds == {<<0, 1000>>, <<300, 1300>>}

Reverse(seq) == [i \in 1..Len(seq) |-> seq[Len(seq) + 1 - i]]

\* the host appends the next datum of its stream to series i
AppendNext(seriesList, i) ==
    [seriesList EXCEPT ![i] = Series(seriesList[i].name,
                                     Min(Len(seriesList[i].data) + 1,
                                         Len(Stream(seriesList[i].name))))]

\* what the host may make of the series list: keep it, reorder it, append to it
HostSeriesLists(seriesList) ==
    {seriesList, Reverse(seriesList)}
        \cup {AppendNext(seriesList, i) : i \in 1..Len(seriesList)}

\* the pixel deltas of a drag event
PanDeltas == {0 - 30, 0, 30}

\* the cumulative scale factors of a zoom event, inside scaleExtent([0, 10])
ZoomFactors == {[num |-> 0, den |-> 1], [num |-> 1, den |-> 2],
                [num |-> 1, den |-> 1], [num |-> 2, den |-> 1]}

\* the offsetX of a zoom event
ZoomOffsets == {50, 100}

(***************************************************************************)
(* Spec: the window and the reconciliation of the spikes, under renders    *)
(* with new bounds and series lists, pans and zooms.                       *)
(***************************************************************************)
Init == InitWith(InitialProps)

RenderBounds ==
    \E b \in HostBounds :
        HostRender([props EXCEPT !.minTime = b[1], !.maxTime = b[2]])

Drag == \E dx \in PanDeltas : onPan(dx)

\* d3.event.transform.k is cumulative, the factor of the event before times
\* that of the gesture: a factor of 0 stays 0
CumulativeFactor(k) == zoomFactorRef.num = 0 => k.num = 0

Wheel ==
    \E k \in ZoomFactors : \E offsetX \in ZoomOffsets :
        CumulativeFactor(k) /\ onZoom(k, offsetX)

Next == Mount \/ RenderBounds \/ Drag \/ Wheel

Spec == Init /\ [][Next]_vars

(***************************************************************************)
(* SpecSeries: the bands of the series, under renders that reorder the     *)
(* series list or append data to it, and pans.                             *)
(***************************************************************************)
RenderSeries ==
    \E sl \in HostSeriesLists(props.seriesList) :
        HostRender([props EXCEPT !.seriesList = sl])

NextSeries == Mount \/ RenderSeries \/ Drag

SpecSeries == Init /\ [][NextSeries]_vars

(***************************************************************************)
(* SpecHover: the tooltip, under renders that switch the tooltip on and    *)
(* off, pans, and the pointer entering and leaving spikes.                 *)
(***************************************************************************)
\* one series, tooltip off
HoverProps ==
    [seriesList |-> <<Series("n0", 3)>>,
     minTime |-> 0, maxTime |-> 1000, style |-> DefaultStyle]

InitHover == InitWith(HoverProps)

RenderTooltip ==
    \E visible \in BOOLEAN :
        HostRender([props EXCEPT !.style.tooltip.visible = visible])

Enter == \E g \in 1..Len(seriesGroups) : \E j \in 1..Len(seriesGroups[g].lines) :
            MouseOver(g, j)

Leave == \E g \in 1..Len(seriesGroups) : \E j \in 1..Len(seriesGroups[g].lines) :
            MouseLeave(g, j)

NextHover == Mount \/ RenderTooltip \/ Drag \/ Enter \/ Leave

SpecHover == InitHover /\ [][NextHover]_vars

(***************************************************************************)
(* SpecStyle: the tooltip switched on, under renders that change the       *)
(* highlight colour of the spikes, pans, and the pointer entering and      *)
(* leaving spikes.                                                         *)
(***************************************************************************)
StyleProps == [HoverProps EXCEPT !.style.tooltip.visible = TRUE]

InitStyle == InitWith(StyleProps)

HighlightColors == {defaultSpikesStyle.highlightColor, "#ffffff"}

RenderStyle ==
    \E color \in HighlightColors :
        HostRender([props EXCEPT !.style.spikesStyle.highlightColor = color])

NextStyle == Mount \/ RenderStyle \/ Drag \/ Enter \/ Leave

SpecStyle == InitStyle /\ [][NextStyle]_vars

(***************************************************************************)
(* SpecOverlay: the magnifier lens and the tracker line, under renders     *)
(* that switch the two overlays on and off, and pointer moves.             *)
(***************************************************************************)
\* where the pointer moves to: inside and right of the plot area
PointerXs == {60, 100, 160}
PointerYs == {50}

\* one series with two spikes in view
OverlayProps ==
    [seriesList |-> <<Series("n0", 2)>>,
     minTime |-> 0, maxTime |-> 1000, style |-> DefaultStyle]

InitOverlay == InitWith(OverlayProps)

\* the width of the lens the host asks for
LensWidth == [width |-> 20]

RenderOverlays ==
    \E m \in BOOLEAN : \E t \in BOOLEAN :
        /\ Len(magnifiers) + (IF m /\ magnifierRef = 0 THEN 1 ELSE 0) <= MaxOverlays
        /\ Len(trackers) + (IF t /\ trackerRef = 0 THEN 1 ELSE 0) <= MaxOverlays
        /\ HostRender([props EXCEPT !.style.magnifier.visible = m,
                                    !.style.magnifier.width = LensWidth.width,
                                    !.style.tracker.visible = t])

Move == \E x \in PointerXs : \E y \in PointerYs : MouseMove(x, y)

NextOverlay == Mount \/ RenderOverlays \/ Move

SpecOverlay == InitOverlay /\ [][NextOverlay]_vars

(***************************************************************************)
(* SpecOptions: the style of a render, under renders whose props give the  *)
(* size and partial option objects.                                        *)
(***************************************************************************)
\* an option object the host leaves out
Unspecified == <<>>

\* the props of a host that supplies the size and the option objects
PropsWith(size, options) ==
    [seriesList |-> InitialProps.seriesList,
     minTime |-> InitialProps.minTime, maxTime |-> InitialProps.maxTime,
     size |-> size, options |-> options,
     style |-> EffectiveStyle(size, options)]

NoOptions == [key \in DOMAIN Defaults |-> Unspecified]

\* a larger size the host may give the chart
LargeSize == [width |-> 190, height |-> 122]

\* the partial objects the host supplies for an option
HostPartials ==
    [margin |-> {[left |-> 30], [right |-> 40], [top |-> 20, bottom |-> 20],
                 [top |-> 20, right |-> 40, bottom |-> 20, left |-> 30]},
     spikesStyle |-> {[highlightColor |-> "#ffffff"], [margin |-> 1, lineWidth |-> 3]},
     axisStyle |-> {[color |-> "#ffffff"]},
     axisLabelFont |-> {[size |-> 14]},
     plotGridLines |-> {[visible |-> FALSE]},
     tooltip |-> {[visible |-> TRUE], [paddingLeft |-> 5]},
     magnifier |-> {[width |-> 20]},
     tracker |-> {[color |-> "#ffffff"], [lineWidth |-> 1, visible |-> FALSE]}]

\* the option objects of a render: none, or one of them partially given
HostOptions ==
    {NoOptions} \cup
    UNION {{[NoOptions EXCEPT ![key] = partial] : partial \in HostPartials[key]} :
              key \in DOMAIN Defaults}

\* the props of a render: any of the option objects at the usual size, and
\* the larger size with the margins left out or given
HostProps ==
    {PropsWith(HostSize, options) : options \in HostOptions} \cup
    {PropsWith(LargeSize, [NoOptions EXCEPT !.margin = partial]) :
        partial \in {Unspecified} \cup HostPartials.margin}

InitOptions == InitWith(PropsWith(HostSize, NoOptions))

RenderOptions == \E p \in HostProps : HostRender(p)

NextOptions == Mount \/ RenderOptions

SpecOptions == InitOptions /\ [][NextOptions]_vars

(***************************************************************************)
(* SpecEmpty: the scene of a chart with nothing to show, under renders     *)
(* with an empty series list or with a window that holds no datum, and     *)
(* pans.                                                                   *)
(***************************************************************************)
EmptyProps == [InitialProps EXCEPT !.seriesList = <<>>]

InitEmpty == InitWith(EmptyProps)

\* the bounds the host supplies: those of the data, and a window without data
EmptyBounds == {<<InitialProps.minTime, InitialProps.maxTime>>, <<1300, 1600>>}

RenderEmpty ==
    \E sl \in {EmptyProps.seriesList, InitialProps.seriesList} :
        \E b \in EmptyBounds :
            HostRender([props EXCEPT !.seriesList = sl,
                                     !.minTime = b[1], !.maxTime = b[2]])

NextEmpty == Mount \/ RenderEmpty \/ Drag

SpecEmpty == InitEmpty /\ [][NextEmpty]_vars

(***************************************************************************)
(* SpecLens: the magnifier lens switched on, under renders, pans, zooms    *)
(* and pointer moves.                                                      *)
(***************************************************************************)
\* one series with one spike in view, in the middle of the window; the
\* magnifier on, with a lens 20 wide
LensProps ==
    [OverlayProps EXCEPT !.minTime = 400, !.maxTime = 600,
                         !.style.magnifier.visible = TRUE,
                         !.style.magnifier.width = LensWidth.width]

InitLens == InitWith(LensProps)

\* the host renders again with the props it has
RenderAgain == HostRender(props)

\* the cumulative scale factors of a zoom event, inside scaleExtent([0, 10])
LensZoomFactors == {[num |-> 1, den |-> 4], [num |-> 1, den |-> 1]}

WheelLens ==
    \E k \in LensZoomFactors : \E offsetX \in ZoomOffsets :
        CumulativeFactor(k) /\ onZoom(k, offsetX)

\* where the pointer moves to, all inside the plot area
LensPointerXs == {55, 104, 125}

MoveLens == \E x \in LensPointerXs : \E y \in PointerYs : MouseMove(x, y)

NextLens == Mount \/ RenderAgain \/ Drag \/ WheelLens \/ MoveLens

SpecLens == InitLens /\ [][NextLens]_vars

(***************************************************************************)
(* SpecReplace: the series groups, under renders whose series list leaves  *)
(* out a series or has another series in its place, and pans.              *)
(***************************************************************************)
\* what the host may supply as the series list: the two series of the mount,
\* the first of them alone, or a series n2 in the place of the first
HostReplacements ==
    {InitialProps.seriesList,
     <<Series("n0", 3)>>,
     <<Series("n2", 1), Series("n1", 2)>>}

RenderReplaced ==
    \E sl \in HostReplacements : HostRender([props EXCEPT !.seriesList = sl])

NextReplace == Mount \/ RenderReplaced \/ Drag

SpecReplace == Init /\ [][NextReplace]_vars

(***************************************************************************)
(* The claims.                                                             *)
(***************************************************************************)
\* the data bound to the spikes rendered for the series `name`, in document
\* order
RenderedData(name) ==
    LET g == SelectById(seriesGroups, name, 1)
    IN IF g = 0 THEN <<>>
       ELSE [j \in 1..Len(seriesGroups[g].lines) |-> seriesGroups[g].lines[j].datum]

\* C1: after every completed reconciliation pass, the first one included, the
\* spikes rendered for each series of seriesList are exactly the data of the
\* series with start <= time <= end of the current window
C1_RenderedIsInView ==
    Mounted =>
        \A i \in 1..Len(props.seriesList) :
            RenderedData(props.seriesList[i].name)
                = FilterInView(props.seriesList[i].data, timeRangeRef)

C5_RenderKeepsOrReplaces ==
    [][ last'.op = "render" =>
          IF MatchesOriginal(timeRangeRef, props'.minTime, props'.maxTime)
          THEN timeRangeRef' = timeRangeRef
          ELSE timeRangeRef' = TimeRange(props'.minTime, props'.maxTime) ]_vars

\* C5 (witness): a render has just kept a window that a gesture had moved away
\* from the bounds of the host
C5_PannedWindowKept ==
    /\ last.op = "render"
    /\ RangeFinite(timeRangeRef)
    /\ timeRangeRef.start # props.minTime
    /\ MatchesOriginal(timeRangeRef, props.minTime, props.maxTime)

\* C10: a pan by 0 pixels and a zoom by the factor 1 leave the start and the
\* end of the window as they were, and the reconciliation that follows leaves
\* the same spikes at the same positions
C10_NeutralGestureIsIdentity ==
    [][ (last'.op \in {"pan", "zoom"} /\ last'.neutral) =>
          /\ timeRangeRef'.start = timeRangeRef.start
          /\ timeRangeRef'.end = timeRangeRef.end
          /\ seriesGroups' = seriesGroups ]_vars

\* the pointer enters a spike in this step
MouseOverStep == pointer.over = Nowhere /\ pointer'.over # Nowhere

\* the elements appended to the tooltips in this step
NewTooltips == SubSeq(tooltips', Len(tooltips) + 1, Len(tooltips'))

CountKind(elements, kind) ==
    Cardinality({i \in 1..Len(elements) : elements[i].kind = kind})

\* C2: a mouseover dispatched while the tooltip.visible of the most recent
\* render is false creates no tooltip element and no highlight; one dispatched
\* while it is true creates exactly one box and two texts
C2_HoverFollowsLatestFlag ==
    [][ MouseOverStep =>
          IF props.style.tooltip.visible
          THEN /\ Len(tooltips') = Len(tooltips) + 3
               /\ SubSeq(tooltips', 1, Len(tooltips)) = tooltips
               /\ CountKind(NewTooltips, "rect") = 1
               /\ CountKind(NewTooltips, "text") = 2
          ELSE /\ tooltips' = tooltips
               /\ seriesGroups' = seriesGroups ]_vars

\* the spike the pointer is over
SpikeUnderPointer == seriesGroups[pointer.over.g].lines[pointer.over.j]

\* C2 (witness): a spike whose listeners were attached while the tooltip was
\* off has been entered after the tooltip was switched on, and has its tooltip
C2_TooltipOfOldListener ==
    /\ last.op = "mouseover"
    /\ ~SpikeUnderPointer.closure.tooltip.visible
    /\ Len(tooltips) = 3

\* C3: once the mouseleave handler of a spike completes, the spike has the
\* normal stroke colour and width again and no tooltip element is left
C3_LeaveRevertsAndRemoves ==
    [][ last'.op = "mouseleave" =>
          /\ tooltips' = <<>>
          /\ seriesGroups'[pointer.over.g].lines[pointer.over.j].stroke
                 = props.style.spikesStyle.color
          /\ seriesGroups'[pointer.over.g].lines[pointer.over.j].strokeWidth
                 = props.style.spikesStyle.lineWidth ]_vars

C7_HoverUsesLatestStyle ==
    [][ MouseOverStep =>
          seriesGroups'[pointer'.over.g].lines[pointer'.over.j].stroke
              = props.style.spikesStyle.highlightColor ]_vars

\* C8: whenever the magnifier and the tracker are both enabled, a pointer move
\* inside the plot area repositions both the lens band and the tracker line
C8_BothOverlaysFollowPointer ==
    ( /\ last.op = "mousemove"
      /\ props.style.magnifier.visible
      /\ props.style.tracker.visible
      /\ mouseInPlotArea(props.style, pointer.x, pointer.y) )
    => /\ magnifierRef # 0
       /\ magnifiers[magnifierRef].x = pointer.x - props.style.magnifier.width \div 2
       /\ magnifiers[magnifierRef].opacity = 1
       /\ trackerRef # 0
       /\ trackers[trackerRef].x1 = pointer.x
       /\ trackers[trackerRef].opacity = 1

\* C9: while the tracker is enabled, after every pointer move the x of the
\* tracker line is the x of the pointer, and its opacity is 1 if the pointer
\* is inside the plot area and 0 otherwise
C9_TrackerFollowsPointer ==
    (last.op = "mousemove" /\ props.style.tracker.visible)
    => /\ trackerRef # 0
       /\ trackers[trackerRef].x1 = pointer.x
       /\ trackers[trackerRef].opacity
              = IF mouseInPlotArea(props.style, pointer.x, pointer.y) THEN 1 ELSE 0

\* the number of axis groups of a class in the scene
CountAxisGroups(class) ==
    Cardinality({i \in 1..Len(axisGroups) : axisGroups[i].class = class})

\* the classes of the axis groups, in document order
AxisClasses(groups) == [i \in 1..Len(groups) |-> groups[i].class]

\* C11: the x-axis and y-axis groups are created exactly once, by the first
\* pass; every later pass replaces the scales in the one axes handle and
\* redraws the same groups in place, so the scene holds at most one x-axis
\* group and one y-axis group
C11_AxesCreatedOnce ==
    /\ [](/\ CountAxisGroups("x-axis") <= 1
          /\ CountAxisGroups("y-axis") <= 1
          /\ Mounted =>
                /\ axesRef.defined
                /\ CountAxisGroups("x-axis") = 1
                /\ CountAxisGroups("y-axis") = 1
                /\ axisGroups[axesRef.xAxisSelection]
                       = [class |-> "x-axis", scale |-> axesRef.xScale]
                /\ axisGroups[axesRef.yAxisSelection]
                       = [class |-> "y-axis", scale |-> axesRef.yScale]
                /\ axesRef.xScale.d0 = timeRangeRef.start
                /\ axesRef.xScale.d1 = timeRangeRef.end)
    /\ [][ axesRef.defined =>
              /\ AxisClasses(axisGroups') = AxisClasses(axisGroups)
              /\ axesRef'.xAxisSelection = axesRef.xAxisSelection
              /\ axesRef'.yAxisSelection = axesRef.yAxisSelection ]_vars

\* C11 (witness): a pass after the first has redrawn the one x-axis group with
\* the scale of a window the user panned to
C11_AxisRedrawnInPlace ==
    /\ last.op = "pan"
    /\ Len(axisGroups) = 2
    /\ axisGroups[axesRef.xAxisSelection].scale.d0 # props.minTime
    /\ axisGroups[axesRef.xAxisSelection].scale.d0 = timeRangeRef.start

\* the style the handlers registered by the most recent pass closed over
ClosedOverStyle == listeners.gesture.closure.style

\* C12: for every option object the effective configuration has, field by
\* field, the value the host supplied where it specified the field and the
\* default otherwise; supplying some fields never drops the defaults of the
\* others
C12_OptionsMergedFieldByField ==
    Mounted =>
        /\ \A key \in DOMAIN Defaults :
              /\ DOMAIN ClosedOverStyle[key] = DOMAIN Defaults[key]
              /\ \A field \in DOMAIN Defaults[key] :
                    ClosedOverStyle[key][field]
                        = IF field \in DOMAIN props.options[key]
                          THEN props.options[key][field]
                          ELSE Defaults[key][field]
        /\ tooltipRef = ClosedOverStyle.tooltip

\* C12 (witness): the host gave two of the four margins, and the pass ran with
\* the two given values and the defaults of the two others
C12_PartialMarginMerged ==
    /\ Mounted
    /\ DOMAIN props.options.margin = {"top", "bottom"}
    /\ ClosedOverStyle.margin.top # defaultMargin.top
    /\ ClosedOverStyle.margin.left = defaultMargin.left

\* C15: adjustedDimensions(width, height, margins) is width - margins.left -
\* margins.right and height - margins.top - margins.bottom, for every size
\* and margins; the pass lays the x scale out over that width and the bands
\* over that height, and leaves the margins as the render computed them
C15_AdjustedDimensions ==
    Mounted =>
        LET style == ClosedOverStyle
            inner == adjustedDimensions(style.width, style.height, style.margin)
            n == Len(props.seriesList)
        IN /\ inner.width = style.width - style.margin.left - style.margin.right
           /\ inner.height = style.height - style.margin.top - style.margin.bottom
           /\ DOMAIN inner = {"width", "height"}
           /\ axesRef.xScale.w
                  = style.width - style.margin.left - style.margin.right
           /\ axesRef.yScale.r
                  = ((style.height - style.margin.top - style.margin.bottom) \div n) * n
                        - style.margin.top
           /\ style.margin = Merge(defaultMargin, props.options.margin)
           /\ style.width = props.size.width
           /\ style.height = props.size.height

\* C15 (witness): a pass has run with the larger size and with margins other
\* than the defaults on the four sides
C15_LargeSizeOwnMargins ==
    /\ Mounted
    /\ props.size = LargeSize
    /\ DOMAIN props.options.margin = {"top", "right", "bottom", "left"}
    /\ axesRef.xScale.w = 120

\* the number of spikes in the scene
CountSpikes ==
    LET RECURSIVE Sum(_)
        Sum(g) == IF g = 0 THEN 0 ELSE Len(seriesGroups[g].lines) + Sum(g - 1)
    IN Sum(Len(seriesGroups))

\* no datum of a series of the props is in the window
NothingToShow ==
    \A i \in 1..Len(props.seriesList) :
        FilterInView(props.seriesList[i].data, timeRangeRef) = <<>>

\* C13: after a pass over an empty seriesList, or over a window that holds no
\* datum of any series, the axes are drawn with well-defined scale ranges and
\* no spike is rendered
C13_EmptySceneIsValid ==
    (Mounted /\ NothingToShow) =>
        /\ CountAxisGroups("x-axis") = 1
        /\ CountAxisGroups("y-axis") = 1
        /\ IsFinite(axesRef.xScale.w)
        /\ IsFinite(axesRef.yScale.r)
        /\ CountSpikes = 0

\* the element the registered mousemove listener acts on, 0 when there is none
MouseMoveHandle ==
    IF listeners.mousemove.kind = "magnify" THEN magnifierRef
    ELSE IF listeners.mousemove.kind = "tracker" THEN trackerRef
    ELSE 0

\* C14: in every state in which a pan, zoom, spike-hover, magnifier or
\* tracker callback can be dispatched the axes handle exists, and the overlay
\* handle of a pointer-move callback either exists in the scene or the
\* callback returns without effect
C14_CallbacksHavePrerequisites ==
    /\ [](/\ listeners.gesture.registered => axesRef.defined
          /\ listeners.mousemove.kind # "none" => axesRef.defined
          /\ CountSpikes > 0 => axesRef.defined
          /\ listeners.mousemove.kind = "magnify"
                 => magnifierRef \in 0..Len(magnifiers)
          /\ listeners.mousemove.kind = "tracker"
                 => trackerRef \in 0..Len(trackers))
    /\ [][ (last'.op = "mousemove" /\ MouseMoveHandle = 0) =>
              UNCHANGED <<seriesGroups, magnifiers, trackers, mouseCoordsRef,
                          tooltips, axisGroups>> ]_vars

\* C14 (witness): a pointer move has been dispatched to the magnifier's
\* listener after the lens handle was dropped by a render that disabled the
\* magnifier
C14_MoveWithoutLens ==
    /\ last.op = "mousemove"
    /\ listeners.mousemove.kind = "magnify"
    /\ magnifierRef = 0
    /\ Len(magnifiers) > 0
    /\ mouseInPlotArea(props.style, pointer.x, pointer.y)

\* C16: a pass keeps every primitive bound to the datum it represented before:
\* the primitive at a position of a series group that is still in the scene
\* after the pass represents the same datum as before, so that the primitives
\* removed are those of the data that left the window and the primitives
\* created are those of the data that entered it
C16_PrimitiveKeepsDatum ==
    [][ \A g \in 1..Len(seriesGroups) :
          \A j \in 1..Min(Len(seriesGroups[g].lines), Len(seriesGroups'[g].lines)) :
              seriesGroups'[g].lines[j].datum = seriesGroups[g].lines[j].datum ]_vars

\* a pointer move dispatched while the magnifier of the most recent render is
\* enabled
MagnifierMoveStep == last'.op = "mousemove" /\ props.style.magnifier.visible

\* half the width of the lens of the most recent render
HalfWidth == props.style.magnifier.width \div 2

\* the pointer of the step is in the plot area, a pixel or more away from the
\* remembered x
ThrottleOpen ==
    /\ mouseInPlotArea(props.style, pointer'.x, pointer'.y)
    /\ Abs(pointer'.x - mouseCoordsRef) >= 1

\* the spike's pixel x is strictly within 4 x halfWidth of the pointer
NearPointer(line) ==
    Abs(XAdd(xFrom(line.datum), props.style.margin.left) - pointer'.x) < 4 * HalfWidth

\* C17: with the magnifier enabled, a pointer move recomputes the lens
\* transform of a spike only if the pointer is in the plot area and a pixel or
\* more away from the x of the last recompute, and only for the spikes
\* strictly within 4 x halfWidth of the pointer; the remembered x becomes the
\* pointer's x exactly when a recompute happens; the lens band is re-centred
\* on the pointer on every move
C17_MagnifierThrottle ==
    [][ MagnifierMoveStep =>
          /\ mouseInPlotArea(props.style, pointer'.x, pointer'.y) =>
                \A g \in 1..Len(seriesGroups) : \A j \in 1..Len(seriesGroups[g].lines) :
                    seriesGroups'[g].lines[j] # seriesGroups[g].lines[j]
                        => (ThrottleOpen /\ NearPointer(seriesGroups[g].lines[j]))
          /\ mouseCoordsRef' # mouseCoordsRef
                => (mouseCoordsRef' = pointer'.x <=> ThrottleOpen)
          /\ magnifierRef # 0
          /\ magnifiers'[magnifierRef].x = pointer'.x - HalfWidth
          /\ magnifiers'[magnifierRef].width = 2 * HalfWidth ]_vars

\* C18: when a pointer move with the magnifier enabled finds the pointer
\* outside the plot area, every spike is back at the x of its time under the
\* current scale with its normal line width, the lens band has width 0 and
\* opacity 0, and the remembered x is 0
C18_LeavingPlotRestoresSpikes ==
    [][ (MagnifierMoveStep /\ ~mouseInPlotArea(props.style, pointer'.x, pointer'.y)) =>
          /\ \A g \in 1..Len(seriesGroups') : \A j \in 1..Len(seriesGroups'[g].lines) :
                /\ seriesGroups'[g].lines[j].x1 = xFrom(seriesGroups'[g].lines[j].datum)
                /\ seriesGroups'[g].lines[j].x2 = xFrom(seriesGroups'[g].lines[j].datum)
                /\ seriesGroups'[g].lines[j].strokeWidth = props.style.spikesStyle.lineWidth
          /\ magnifierRef # 0
          /\ magnifiers'[magnifierRef].width = 0
          /\ magnifiers'[magnifierRef].opacity = 0
          /\ mouseCoordsRef' = 0 ]_vars

\* a * b of two Numbers
XMul(a, b) ==
    IF a = NaN \/ b = NaN THEN NaN
    ELSE IF IsFinite(a) /\ IsFinite(b) THEN a * b
    ELSE IF a = 0 \/ b = 0 THEN NaN
    ELSE IF (a > 0) = (b > 0) THEN PosInf ELSE NegInf

\* the amount a drag by dx shifts the window by: -dx x (end - start) / plotWidth
PanShift(dx) ==
    XNeg(XDivK(XMul(dx, XSub(timeRangeRef.end, timeRangeRef.start)),
               [num |-> plotDimensions(props.style).width, den |-> 1]))

C20_ZoomKeepsAnchor ==
    [][ \A k \in ZoomFactors : \A offsetX \in ZoomOffsets :
          (last'.op = "zoom" /\ k.num > 0 /\ onZoom(k, offsetX)) =>
              LET x == offsetX - props.style.margin.left
                  pivot == ScaleInvert(axesRef.xScale, x)
                  left == XSub(pivot, timeRangeRef.start)
                  right == XSub(timeRangeRef.end, pivot)
                  leftAfter == XSub(pivot, timeRangeRef'.start)
                  rightAfter == XSub(timeRangeRef'.end, pivot)
              IN /\ IsFinite(pivot)
                 /\ ScaleInvert(axesRef'.xScale, x) = pivot
                 /\ ScaleApply(axesRef'.xScale, pivot) = x
                 /\ leftAfter = XDivK(left, k)
                 /\ rightAfter = XDivK(right, k)
                 /\ leftAfter * right = left * rightAfter
                 /\ zoomFactorRef' = k ]_vars

\* C20 (witness): a zoom by the factor 2 around a pivot inside the window has
\* halved the spans on both sides of it
C20_ZoomedInAroundPivot ==
    /\ last.op = "zoom"
    /\ zoomFactorRef = [num |-> 2, den |-> 1]
    /\ RangeFinite(timeRangeRef)
    /\ timeRangeRef.start > props.minTime
    /\ timeRangeRef.end < props.maxTime

\* the spikes rendered for the series `name`, in document order
SeriesLines(name) ==
    LET g == SelectById(seriesGroups, name, 1)
    IN IF g = 0 THEN <<>> ELSE seriesGroups[g].lines

\* the height of a band of the series axis of the last pass
BandHeight == axesRef.yScale.r \div Len(axesRef.yScale.names)

\* C21: the vertical extent [y1, y2] of the spikes of a series lies inside the
\* band of the series and has the length band height - 2 x spike margin, and
\* the extents of the spikes of two adjacent series neither overlap nor touch
C21_SpikesInsideBand ==
    Mounted =>
        \A i \in 1..Len(props.seriesList) :
            LET name == props.seriesList[i].name
                top == BandApply(axesRef.yScale, name)
                lines == SeriesLines(name)
            IN \A j \in 1..Len(lines) :
                  /\ lines[j].y1 >= top
                  /\ lines[j].y2 <= top + BandHeight
                  /\ lines[j].y2 - lines[j].y1
                         = BandHeight - 2 * props.style.spikesStyle.margin
                  /\ i < Len(props.seriesList) =>
                        LET below == SeriesLines(props.seriesList[i + 1].name)
                        IN \A k \in 1..Len(below) : lines[j].y2 < below[k].y1

\* a pointer move has made handleShowMagnify recompute the lens
RecomputeStep ==
    /\ last'.op = "mousemove"
    /\ listeners.mousemove.kind = "magnify"
    /\ HandlePresent(magnifierRef)
    /\ LensRecomputed(listeners.mousemove.closure, pointer'.x, pointer'.y)

\* C22: magnify is called only for points inside the lens interval: every
\* call of a recompute has |x - x0| <= w, x0 the focal pixel and w the half
\* width the magnifier was constructed with
C22_MagnifyOnlyInsideLens ==
    [][ RecomputeStep =>
          \A call \in MagnifyCalls(listeners.mousemove.closure, seriesGroups,
                                   listeners.mousemove.closure.magnifier.width \div 2,
                                   pointer'.x) :
              Abs(call.x - call.lens.x0) <= call.lens.w ]_vars

\* a reconciliation pass has run
PassStep == last'.op \in {"render", "pan", "zoom"}

\* the data of the stream of the series `name`
StreamData(name) == {Stream(name)[n] : n \in 1..Len(Stream(name))}

\* C23: no pass and no overlay callback changes the data of a series: the
\* series of the props change in a render of the host only, and the datum
\* bound to a spike is a datum of its series, with the time and the value
\* the host gave it; the chart writes the annotations x and lens only, and
\* what it draws with is computed from the time of the datum in the same
\* pass or callback: after a pass the x of every spike is the datum.x
\* written by the pass from the time under the scale of the pass, and after
\* a recompute of the lens the x of every spike in the filter is the xPrime
\* of the datum.lens written by the recompute
C23_OnlyAnnotationsWritten ==
    /\ [](/\ DOMAIN annotations = {"x", "lens"}
          /\ \A g \in 1..Len(seriesGroups) : \A j \in 1..Len(seriesGroups[g].lines) :
                seriesGroups[g].lines[j].datum \in StreamData(seriesGroups[g].id)
          /\ \A i \in 1..Len(props.seriesList) :
                props.seriesList[i].data
                    = SubSeq(Stream(props.seriesList[i].name), 1,
                             Len(props.seriesList[i].data)))
    /\ [][ /\ last'.op # "render" => props'.seriesList = props.seriesList
           /\ PassStep =>
                \A g \in 1..Len(seriesGroups') : \A j \in 1..Len(seriesGroups'[g].lines) :
                    LET line == seriesGroups'[g].lines[j]
                        datum == DatumOf(seriesGroups'[g].id, line.datum)
                    IN /\ datum \in DOMAIN annotations'.x
                       /\ annotations'.x[datum]
                              = ScaleApply(axesRef'.xScale, line.datum.time)
                       /\ line.x1 = annotations'.x[datum]
                       /\ line.x2 = annotations'.x[datum]
           /\ RecomputeStep =>
                LET style == listeners.mousemove.closure
                    lens == BarMagnifier(style, style.magnifier.width \div 2, pointer'.x)
                IN \A gj \in Filtered(style, seriesGroups, lens.w, pointer'.x) :
                      LET line == seriesGroups'[gj[1]].lines[gj[2]]
                          datum == DatumOf(seriesGroups'[gj[1]].id, line.datum)
                      IN /\ datum \in DOMAIN annotations'.lens
                         /\ annotations'.lens[datum]
                                = Magnify(lens.w, lens.p, lens.x0,
                                          ScaleApply(axesRef.xScale, line.datum.time))
                         /\ line.x1 = annotations'.lens[datum].xPrime
                         /\ line.x2 = annotations'.lens[datum].xPrime ]_vars

\* C23 (witness): a pan or a zoom has written the x of a datum that carries
\* the lens of an earlier recompute, and the x it wrote is not the one the
\* datum had through the lens
C23_RewrittenAfterLens ==
    /\ last.op \in {"pan", "zoom"}
    /\ \E datum \in DOMAIN annotations.lens :
          /\ datum \in DOMAIN annotations.x
          /\ annotations.lens[datum].xPrime # annotations.x[datum]
          /\ \E g \in 1..Len(seriesGroups) : \E j \in 1..Len(seriesGroups[g].lines) :
                /\ DatumOf(seriesGroups[g].id, seriesGroups[g].lines[j].datum) = datum
                /\ seriesGroups[g].lines[j].x1 = annotations.x[datum]

\* C24: the power the chart constructs a bar magnifier with, 3 x the
\* remembered zoom factor, is 1 or more
C24_LensPowerAtLeastOne ==
    [][ RecomputeStep =>
          LET style == listeners.mousemove.closure
              lens == BarMagnifier(style, style.magnifier.width \div 2, pointer'.x)
          IN lens.p.num >= lens.p.den ]_vars

\* the lens rect is drawn: it has a width and is not transparent
LensDisplayed(rect) == rect.width > 0 /\ rect.opacity > 0

\* the tracker line is drawn: it is not transparent
TrackerDisplayed(line) == line.opacity > 0

\* C25: the scene holds at most one lens rect (each is appended with its
\* gradient definition) and at most one tracker line, and none that is still
\* drawn while the flag of its overlay is false in the props of the last
\* render
C25_AtMostOneOverlay ==
    /\ Len(magnifiers) <= 1
    /\ Len(trackers) <= 1
    /\ (Mounted /\ ~props.style.magnifier.visible) =>
           \A i \in 1..Len(magnifiers) : ~LensDisplayed(magnifiers[i])
    /\ (Mounted /\ ~props.style.tracker.visible) =>
           \A i \in 1..Len(trackers) : ~TrackerDisplayed(trackers[i])

\* C26: with the magnifier enabled, after a pointer move that finds the
\* pointer inside the plot area every spike whose pixel x (that of its time
\* under the current scale) is farther than 4 x halfWidth from the pointer is
\* drawn at that x with its normal line width
C26_FarSpikesUntransformed ==
    [][ (MagnifierMoveStep /\ mouseInPlotArea(props.style, pointer'.x, pointer'.y)) =>
          \A g \in 1..Len(seriesGroups') : \A j \in 1..Len(seriesGroups'[g].lines) :
              LET line == seriesGroups'[g].lines[j]
                  x == xFrom(line.datum)
              IN Abs(XAdd(x, props.style.margin.left) - pointer'.x) > 4 * HalfWidth
                    => /\ line.x1 = x
                       /\ line.x2 = x
                       /\ line.strokeWidth = props.style.spikesStyle.lineWidth ]_vars

\* C27: the scene holds at most one tooltip box and at most two tooltip
\* texts, and the spike a tooltip element describes is rendered and is the
\* spike the pointer has entered last and not left yet
C27_TooltipOfHoveredSpike ==
    /\ CountKind(tooltips, "rect") <= 1
    /\ CountKind(tooltips, "text") <= 2
    /\ \A i \in 1..Len(tooltips) :
          /\ \E j \in 1..Len(RenderedData(tooltips[i].series)) :
                RenderedData(tooltips[i].series)[j].time = tooltips[i].time
          /\ pointer.over # Nowhere
          /\ seriesGroups[pointer.over.g].id = tooltips[i].series
          /\ SpikeUnderPointer.datum.time = tooltips[i].time

\* the series of the series list with the name `name`, as a set
SeriesNamed(seriesList, name) ==
    {seriesList[i] : i \in {i \in 1..Len(seriesList) : seriesList[i].name = name}}

\* C28: after every pass every series group and every spike of the scene
\* belongs to a series of the current seriesList: the id of a group is the
\* name of a series of the list, and the spikes of the group are bound to
\* data of that series
C28_SceneOfCurrentSeries ==
    Mounted =>
        \A g \in 1..Len(seriesGroups) :
            /\ SeriesNamed(props.seriesList, seriesGroups[g].id) # {}
            /\ \A j \in 1..Len(seriesGroups[g].lines) :
                  \E series \in SeriesNamed(props.seriesList, seriesGroups[g].id) :
                      \E n \in 1..Len(series.data) :
                          series.data[n] = seriesGroups[g].lines[j].datum

====
